---------------------------- MODULE Spec2Model ----------------------------
(***************************************************************************)
(* A model of tissue.py, the build pipeline of the Tissue static site      *)
(* generator: main() runs prepare_build_dir,                               *)
(* prerender_partials_to_templates, copy_static, build_index,              *)
(* check_for_duplicate_permalinks, render_pages, generate_search_index and *)
(* generate_sitemap, in that order.                                        *)
(*                                                                         *)
(* Python strings are sequences of tokens: "/" and "." are tokens of their *)
(* own and a run of other characters ("md", "page", "T1") is one token, so *)
(* that strip, rstrip, with_suffix, suffix and as_posix are computed the   *)
(* way str and pathlib compute them.  Front-matter values are tagged       *)
(* Python values, so that isinstance and truthiness are computed and not   *)
(* assumed.  Permalinks are strings (render_pages calls .strip on them).   *)
(* The page files, search_index.json and sitemap.xml of public/ are kept   *)
(* in variables of their own: no permalink of the documents modelled names *)
(* one of the two artifacts, or a path under another page's file.          *)
(***************************************************************************)
EXTENDS Integers, Sequences, FiniteSets, TLC

(***************************************************************************)
(* Bounds of the model.                                                    *)
(***************************************************************************)
\* the most documents under markdown/ in one build
MaxDocs == 2
\* the longest declared permalink (in characters) of the indexer specification
MaxPermalinkLen == 3

(***************************************************************************)
(* Python values.                                                          *)
(***************************************************************************)
PyStr(cs) == [type |-> "str", s |-> cs, items |-> <<>>]
PyTrue == [type |-> "bool", s |-> <<"True">>, items |-> <<>>]
PyFalse == [type |-> "bool", s |-> <<"False">>, items |-> <<>>]
PyNone == [type |-> "NoneType", s |-> <<"None">>, items |-> <<>>]
PyInt(d) == [type |-> "int", s |-> <<d>>, items |-> <<>>]
PyList(xs) == [type |-> "list", s |-> <<>>, items |-> xs]

\* bool(v): the truth value Python's `or` and `not` test
Truthy(v) ==
    CASE v.type = "str" -> v.s # <<>>
      [] v.type = "bool" -> v.s = <<"True">>
      [] v.type = "NoneType" -> FALSE
      [] v.type = "int" -> v.s # <<"0">>
      [] v.type = "list" -> v.items # <<>>

\* isinstance(v, str), isinstance(v, list)
IsInstance(v, t) == v.type = t

\* metadata.get(key, default) of a mapping
Get(metadata, key, default) ==
    IF key \in DOMAIN metadata THEN metadata[key] ELSE default

(***************************************************************************)
(* str and pathlib operations on character sequences.                      *)
(***************************************************************************)
RECURSIVE LStrip(_, _)
LStrip(s, c) ==
    IF s # <<>> /\ Head(s) = c THEN LStrip(Tail(s), c) ELSE s

RECURSIVE RStrip(_, _)
RStrip(s, c) ==
    IF s # <<>> /\ s[Len(s)] = c THEN RStrip(SubSeq(s, 1, Len(s) - 1), c) ELSE s

\* s.strip(c)
Strip(s, c) == RStrip(LStrip(s, c), c)

\* the pieces of s between the separators c (as s.split(c))
RECURSIVE SplitOn(_, _, _)
SplitOn(s, c, cur) ==
    IF s = <<>> THEN <<cur>>
    ELSE IF Head(s) = c THEN <<cur>> \o SplitOn(Tail(s), c, <<>>)
    ELSE SplitOn(Tail(s), c, Append(cur, Head(s)))

\* the components pathlib keeps of a relative path string: empty components
\* and "." components are dropped
PathParts(s) ==
    SelectSeq(SplitOn(s, "/", <<>>), LAMBDA seg : seg # <<>> /\ seg # <<".">>)

\* the position of the last "." of a name, 0 when there is none (name.rfind("."), 1-based)
RECURSIVE RFindDot(_, _)
RFindDot(name, i) ==
    IF i = 0 THEN 0 ELSE IF name[i] = "." THEN i ELSE RFindDot(name, i - 1)

\* PurePath.suffix of a final component: the last "." and what follows, unless
\* that "." leads or ends the name
NameSuffix(name) ==
    LET i == RFindDot(name, Len(name))
    IN  IF 1 < i /\ i < Len(name) THEN SubSeq(name, i, Len(name)) ELSE <<>>

\* PurePath.with_suffix("") of a relative path (a sequence of components)
WithSuffixEmpty(parts) ==
    LET name == parts[Len(parts)]
        stem == SubSeq(name, 1, Len(name) - Len(NameSuffix(name)))
    IN  SubSeq(parts, 1, Len(parts) - 1) \o <<stem>>

\* PurePath.as_posix(): the components joined by "/"
RECURSIVE AsPosix(_)
AsPosix(parts) ==
    IF parts = <<>> THEN <<>>
    ELSE IF Len(parts) = 1 THEN parts[1]
    ELSE parts[1] \o <<"/">> \o AsPosix(Tail(parts))

(***************************************************************************)
(* Configuration (tissue_config.py) and the key schema.                    *)
(***************************************************************************)
sitemap_base_url == <<"https:", "/", "/", "domain", ".", "io">>

REQUIRED_KEYS == {"title", "desc", "image", "template"}
OPTIONAL_KEYS == {"permalink", "pages_exclude", "groups"}
KNOWN_KEYS == REQUIRED_KEYS \cup OPTIONAL_KEYS

\* the templates jinja2's FileSystemLoader finds under templates/
TemplateFiles == {<<"page", ".", "html">>, <<"template_default", ".", "html">>}

(***************************************************************************)
(* validate_frontmatter, generate_permalink and the page record of         *)
(* build_index.                                                            *)
(***************************************************************************)
Missing(metadata) == REQUIRED_KEYS \ DOMAIN metadata
Unknown(metadata) == DOMAIN metadata \ KNOWN_KEYS

\* a validator that rejects only a document with none of the required keys
ValidateFrontmatterMissingAny(metadata) == Missing(metadata) # REQUIRED_KEYS
\* the value validate_frontmatter returns
validate_frontmatter(metadata) == Missing(metadata) = {}

\* what validate_frontmatter prints for the document at md_path
ValidationOutput(metadata, md_path) ==
    (IF Missing(metadata) # {}
        THEN << <<"missing", md_path, Missing(metadata)>> >> ELSE <<>>)
    \o (IF Unknown(metadata) # {}
        THEN << <<"unknown", md_path, Unknown(metadata)>> >> ELSE <<>>)

\* a derivation that forgets the trailing slash
GeneratePermalinkNoTrailingSlash(md_path) ==
    PyStr(<<"/">> \o AsPosix(WithSuffixEmpty(md_path)))
\* md_path is the path relative to MARKDOWN_DIR, a sequence of components
generate_permalink(md_path) ==
    PyStr(<<"/">> \o AsPosix(WithSuffixEmpty(md_path)) \o <<"/">>)

\* md_path.relative_to(MARKDOWN_DIR).parent.name or "root"
Section(md_path) ==
    IF Len(md_path) > 1 THEN PyStr(md_path[Len(md_path) - 1])
    ELSE PyStr(<<"root">>)

\* the normalisation of the declared groups
RawGroups(metadata) ==
    LET raw_groups == Get(metadata, "groups", PyList(<<>>))
    IN  IF IsInstance(raw_groups, "str") THEN <<raw_groups>>
        ELSE IF ~IsInstance(raw_groups, "list") THEN <<>>
        ELSE raw_groups.items

\* groups with the section appended instead of prepended
GroupsSectionLast(metadata, md_path) == RawGroups(metadata) \o <<Section(md_path)>>
\* groups = [section] + raw_groups
Groups(metadata, md_path) == <<Section(md_path)>> \o RawGroups(metadata)

\* a permalink that tests the presence of the key and not the value's truth
PermalinkIfDeclared(metadata, md_path) ==
    IF "permalink" \in DOMAIN metadata THEN metadata["permalink"]
    ELSE generate_permalink(md_path)
\* page.get("permalink") or generate_permalink(md_path)
Permalink(metadata, md_path) ==
    LET declared == Get(metadata, "permalink", PyNone)
    IN  IF Truthy(declared) THEN declared ELSE generate_permalink(md_path)

\* markdown.markdown(text): the external markup-to-HTML conversion
Markdown(text) == <<"html", text>>

\* the dictionary build_index appends for a valid document
PageRecord(doc, md_path) ==
    [content |-> Markdown(doc.content),
     title |-> Get(doc.metadata, "title", PyStr(<<>>)),
     desc |-> Get(doc.metadata, "desc", PyStr(<<>>)),
     image |-> Get(doc.metadata, "image", PyStr(<<>>)),
     permalink |-> Permalink(doc.metadata, md_path),
     template |-> Get(doc.metadata, "template", PyStr(<<"template_default", ".", "html">>)),
     groups |-> Groups(doc.metadata, md_path),
     pages_exclude |-> Get(doc.metadata, "pages_exclude", PyFalse)]


(***************************************************************************)
(* check_for_duplicate_permalinks, the output path of render_pages,        *)
(* generate_search_index and generate_sitemap.                             *)
(***************************************************************************)
\* an audit that names the later owner twice
RECURSIVE DuplicateReportsOwnTitle(_, _, _)
DuplicateReportsOwnTitle(idx, i, seen) ==
    IF i > Len(idx) THEN <<>>
    ELSE LET permalink == idx[i].permalink
         IN  IF permalink \in DOMAIN seen
                THEN << <<"duplicate", idx[i].title, idx[i].title, permalink>> >>
                     \o DuplicateReportsOwnTitle(idx, i + 1, seen)
                ELSE DuplicateReportsOwnTitle(idx, i + 1, (permalink :> idx[i].title) @@ seen)

\* the lines check_for_duplicate_permalinks prints for index[i..], with the
\* dictionary seen (permalink -> title of its first owner) built so far
RECURSIVE DuplicateReports(_, _, _)
DuplicateReports(idx, i, seen) ==
    IF i > Len(idx) THEN <<>>
    ELSE LET permalink == idx[i].permalink
         IN  IF permalink \in DOMAIN seen
                THEN << <<"duplicate", seen[permalink], idx[i].title, permalink>> >>
                     \o DuplicateReports(idx, i + 1, seen)
                ELSE DuplicateReports(idx, i + 1, (permalink :> idx[i].title) @@ seen)

\* the name of BUILD_DIR
BuildDirName == <<"public">>

\* an output path without the index.html of clean URLs
OutPathNoIndexHtml(page) == PathParts(Strip(page.permalink.s, "/"))
\* out_path of a page, relative to BUILD_DIR, as a sequence of components
OutPath(page) ==
    LET parts == PathParts(Strip(page.permalink.s, "/"))
        name == IF parts = <<>> THEN BuildDirName ELSE parts[Len(parts)]
    IN  IF NameSuffix(name) = <<>>
            THEN parts \o << <<"index", ".", "html">> >>
            ELSE parts

\* template.render(**page, all_pages=index): the external template engine
Render(page, idx) == [template |-> page.template.s, page |-> page, all_pages |-> idx]

\* a search index of every page, and one that keeps only pages_exclude == False
SearchablePagesUnfiltered(idx) == idx
SearchablePagesOnlyFalse(idx) == SelectSeq(idx, LAMBDA p : p.pages_exclude = PyFalse)
\* [p for p in index if not p.get("pages_exclude")]
SearchablePages(idx) == SelectSeq(idx, LAMBDA p : ~Truthy(p.pages_exclude))

\* the <loc> of a page in the sitemap
SitemapUrl(page) == RStrip(sitemap_base_url, "/") \o page.permalink.s

\* the <loc> entries generate_sitemap writes for the pages it is given
SitemapEntries(pgs) == [k \in 1..Len(pgs) |-> SitemapUrl(pgs[k])]

\* TEMPLATE_DIR / f"partial_{name}.html"
PartialName(stem) == <<"partial_">> \o stem \o <<".", "html">>

(***************************************************************************)
(* main(): the stages in the order main calls them.                        *)
(***************************************************************************)
\* an order that renders before the partials and the index exist
MainOrderRenderFirst ==
    <<"prepare_build_dir", "render_pages", "prerender_partials_to_templates",
      "copy_static", "build_index", "check_for_duplicate_permalinks",
      "generate_search_index", "generate_sitemap">>
\* the calls of main
MainOrder ==
    <<"prepare_build_dir", "prerender_partials_to_templates", "copy_static",
      "build_index", "check_for_duplicate_permalinks", "render_pages",
      "generate_search_index", "generate_sitemap">>

(***************************************************************************)
(* The state.                                                              *)
(***************************************************************************)
VARIABLES
    markdown,          \* markdown/: relative path of each .md file -> document
    partialsource,     \* templates/partialsource/: whether it exists, its *.md stems
    static_exists,     \* whether static/ exists
    template_dir,      \* the file names at the root of templates/
    build_dir_exists,  \* whether public/ exists
    pages,             \* public/: output path -> rendered text of the page files
    static_copied,     \* whether public/static holds the copy of static/
    search_index_file, \* public/search_index.json
    sitemap_file,      \* public/sitemap.xml
    index,             \* the list build_index builds and main passes on
    origin,            \* history: the source path of each record of index
    visited,           \* the files rglob has yielded to build_index
    globbed,           \* the stems glob has yielded to prerender_partials_to_templates
    rendered,          \* how many records of index render_pages has gone through
    searchable_pages,  \* what generate_search_index returned to main
    stdout,            \* the lines printed
    pc,                \* the position of main in MainOrder
    completed,         \* history: the stages that have returned, in order
    crashed            \* an exception has left main

vars == <<markdown, partialsource, static_exists, template_dir, build_dir_exists,
          pages, static_copied, search_index_file, sitemap_file, index, origin,
          visited, globbed, rendered, searchable_pages, stdout, pc, completed,
          crashed>>

inputs == <<markdown, partialsource, static_exists>>
public == <<build_dir_exists, pages, static_copied, search_index_file, sitemap_file>>

(***************************************************************************)
(* The inputs: the document tree, the partial sources, the static tree.    *)
(***************************************************************************)
\* the .md files rglob can find, relative to MARKDOWN_DIR
Paths ==
    { << <<"a", ".", "md">> >>,
      << <<"b">>, <<"a", ".", "md">> >>,
      << <<"b">>, <<"c", ".", "md">> >> }

\* front matter with the four required keys
Required(title, template) ==
    [k \in REQUIRED_KEYS |->
        CASE k = "title" -> PyStr(<<title>>)
          [] k = "desc" -> PyStr(<<"d">>)
          [] k = "image" -> PyStr(<<"i", ".", "png">>)
          [] k = "template" -> PyStr(template)]

\* metadata without the keys of a set
Without(metadata, keys) == [k \in DOMAIN metadata \ keys |-> metadata[k]]

PageHtml == <<"page", ".", "html">>
NopeHtml == <<"nope", ".", "html">>
Base == Required("T1", PageHtml)

\* the front matter of the documents of a build
Metadatas ==
    { Base,
      ("permalink" :> PyStr(<<"/", "a", "/">>)) @@ Base,
      ("permalink" :> PyStr(<<"/", "a", "/">>)) @@ Required("T2", PageHtml),
      ("permalink" :> PyStr(<<"/", "a">>)) @@ Required("T2", PageHtml),
      ("permalink" :> PyStr(<<"/", "f", ".", "t">>)) @@ Base,
      ("permalink" :> PyStr(<<>>)) @@ Base,
      ("pages_exclude" :> PyTrue) @@ Base,
      ("pages_exclude" :> PyTrue) @@ ("permalink" :> PyStr(<<"/", "a", "/">>))
          @@ Required("T2", PageHtml),
      ("pages_exclude" :> PyNone) @@ Base,
      ("pages_exclude" :> PyStr(<<"n", "o">>)) @@ Base,
      Required("T2", NopeHtml),
      Without(Base, {"image"}),
      Without(("author" :> PyStr(<<"x">>)) @@ Base, {"title", "template"}),
      ("pages_exclude" :> PyFalse) @@ ("author" :> PyStr(<<"x">>)) @@ Base }

Documents == [metadata : Metadatas, content : {<<"text">>}]

\* the document trees of at most MaxDocs files
Trees ==
    UNION { [P -> Documents] : P \in {Q \in SUBSET Paths : Cardinality(Q) <= MaxDocs} }

PartialSources ==
    { [exists |-> FALSE, stems |-> {}],
      [exists |-> TRUE, stems |-> {<<"nav">>, <<"foot">>}] }

\* a page record and the files a previous build left in public/
OldPage == PageRecord([metadata |-> ("permalink" :> PyStr(<<"/", "old", "/">>)) @@ Base,
                       content |-> <<"text">>], << <<"o", ".", "md">> >>)
NoFile == [exists |-> FALSE, body |-> <<>>]
File(body) == [exists |-> TRUE, body |-> body]

Init ==
    /\ markdown \in Trees
    /\ partialsource \in PartialSources
    /\ static_exists \in BOOLEAN
    /\ template_dir = TemplateFiles
    /\ \/ /\ build_dir_exists = FALSE
          /\ pages = <<>>
          /\ static_copied = FALSE
          /\ search_index_file = NoFile
          /\ sitemap_file = NoFile
       \/ /\ build_dir_exists = TRUE
          /\ pages = (OutPath(OldPage) :> Render(OldPage, <<OldPage>>))
          /\ static_copied = TRUE
          /\ search_index_file = File(<<OldPage>>)
          /\ sitemap_file = File(<<SitemapUrl(OldPage)>>)
    /\ index = <<>>
    /\ origin = <<>>
    /\ visited = {}
    /\ globbed = {}
    /\ rendered = 0
    /\ searchable_pages = <<>>
    /\ stdout = <<>>
    /\ pc = 1
    /\ completed = <<>>
    /\ crashed = FALSE

(***************************************************************************)
(* The steps of main.                                                      *)
(***************************************************************************)
\* the stage main is in
Stage == IF pc <= Len(MainOrder) THEN MainOrder[pc] ELSE "exit"

Running(stage) == ~crashed /\ Stage = stage

\* the stage returns to main
Return(stage) ==
    /\ pc' = pc + 1
    /\ completed' = Append(completed, stage)

\* prepare_build_dir: rmtree(BUILD_DIR) if it exists, then mkdir
PrepareBuildDir ==
    /\ Running("prepare_build_dir")
    /\ build_dir_exists' = TRUE
    /\ pages' = <<>>
    /\ static_copied' = FALSE
    /\ search_index_file' = NoFile
    /\ sitemap_file' = NoFile
    /\ Return("prepare_build_dir")
    /\ UNCHANGED <<inputs, template_dir, index, origin, visited, globbed, rendered,
                   searchable_pages, stdout, crashed>>

\* prerender_partials_to_templates: templates/partialsource does not exist
PrerenderNoSource ==
    /\ Running("prerender_partials_to_templates")
    /\ ~partialsource.exists
    /\ Return("prerender_partials_to_templates")
    /\ UNCHANGED <<inputs, public, template_dir, index, origin, visited, globbed,
                   rendered, searchable_pages, stdout, crashed>>

\* one turn of its loop: the next partialsource/*.md becomes partial_<stem>.html
PrerenderPartial ==
    /\ Running("prerender_partials_to_templates")
    /\ partialsource.exists
    /\ \E name \in partialsource.stems \ globbed :
          /\ globbed' = globbed \cup {name}
          /\ template_dir' = template_dir \cup {PartialName(name)}
          /\ stdout' = Append(stdout, <<"pre-rendered", PartialName(name)>>)
    /\ UNCHANGED <<inputs, public, index, origin, visited, rendered,
                   searchable_pages, pc, completed, crashed>>

\* the glob is exhausted
PrerenderDone ==
    /\ Running("prerender_partials_to_templates")
    /\ partialsource.exists
    /\ globbed = partialsource.stems
    /\ Return("prerender_partials_to_templates")
    /\ UNCHANGED <<inputs, public, template_dir, index, origin, visited, globbed,
                   rendered, searchable_pages, stdout, crashed>>

\* copy_static: static/ exists and is copied to public/static
CopyStaticTree ==
    /\ Running("copy_static")
    /\ static_exists
    /\ static_copied' = TRUE
    /\ stdout' = Append(stdout, <<"static copied">>)
    /\ Return("copy_static")
    /\ UNCHANGED <<inputs, template_dir, build_dir_exists, pages, search_index_file,
                   sitemap_file, index, origin, visited, globbed, rendered,
                   searchable_pages, crashed>>

\* copy_static: there is no static/
CopyStaticNone ==
    /\ Running("copy_static")
    /\ ~static_exists
    /\ stdout' = Append(stdout, <<"no static directory">>)
    /\ Return("copy_static")
    /\ UNCHANGED <<inputs, public, template_dir, index, origin, visited, globbed,
                   rendered, searchable_pages, crashed>>

\* one turn of the loop of build_index: rglob yields md_path, in any order
LoadDocument ==
    /\ Running("build_index")
    /\ \E md_path \in DOMAIN markdown \ visited :
          LET page == markdown[md_path]
          IN  /\ visited' = visited \cup {md_path}
              /\ stdout' = stdout \o ValidationOutput(page.metadata, md_path)
              /\ IF validate_frontmatter(page.metadata)
                    THEN /\ index' = Append(index, PageRecord(page, md_path))
                         /\ origin' = Append(origin, md_path)
                    ELSE UNCHANGED <<index, origin>>
    /\ UNCHANGED <<inputs, public, template_dir, globbed, rendered, searchable_pages,
                   pc, completed, crashed>>

\* rglob is exhausted: build_index returns index
BuildIndexDone ==
    /\ Running("build_index")
    /\ visited = DOMAIN markdown
    /\ Return("build_index")
    /\ UNCHANGED <<inputs, public, template_dir, index, origin, visited, globbed,
                   rendered, searchable_pages, stdout, crashed>>

\* check_for_duplicate_permalinks(index)
CheckForDuplicatePermalinks ==
    /\ Running("check_for_duplicate_permalinks")
    /\ stdout' = stdout \o DuplicateReports(index, 1, <<>>)
    /\ Return("check_for_duplicate_permalinks")
    /\ UNCHANGED <<inputs, public, template_dir, index, origin, visited, globbed,
                   rendered, searchable_pages, crashed>>

\* one turn of the loop of render_pages: the template is found, the page written
RenderPage ==
    /\ Running("render_pages")
    /\ rendered < Len(index)
    /\ LET page == index[rendered + 1]
       IN  /\ page.template.s \in template_dir
           /\ pages' = (OutPath(page) :> Render(page, index)) @@ pages
           /\ stdout' = Append(stdout, <<"rendered", OutPath(page)>>)
    /\ rendered' = rendered + 1
    /\ UNCHANGED <<inputs, template_dir, build_dir_exists, static_copied,
                   search_index_file, sitemap_file, index, origin, visited, globbed,
                   searchable_pages, pc, completed, crashed>>

\* a renderer that skips a page whose template is not found
RenderTemplateNotFoundSkipsPage ==
    /\ Running("render_pages")
    /\ rendered < Len(index)
    /\ index[rendered + 1].template.s \notin template_dir
    /\ rendered' = rendered + 1
    /\ UNCHANGED <<inputs, public, template_dir, index, origin, visited, globbed,
                   searchable_pages, stdout, pc, completed, crashed>>

\* env.get_template raises TemplateNotFound, which nothing catches
RenderTemplateNotFound ==
    /\ Running("render_pages")
    /\ rendered < Len(index)
    /\ index[rendered + 1].template.s \notin template_dir
    /\ crashed' = TRUE
    /\ UNCHANGED <<inputs, public, template_dir, index, origin, visited, globbed,
                   rendered, searchable_pages, stdout, pc, completed>>

\* the loop of render_pages is over
RenderDone ==
    /\ Running("render_pages")
    /\ rendered = Len(index)
    /\ Return("render_pages")
    /\ UNCHANGED <<inputs, public, template_dir, index, origin, visited, globbed,
                   rendered, searchable_pages, stdout, crashed>>

\* generate_search_index(index)
GenerateSearchIndex ==
    /\ Running("generate_search_index")
    /\ search_index_file' = File(SearchablePages(index))
    /\ searchable_pages' = SearchablePages(index)
    /\ stdout' = Append(stdout, <<"search index", Len(SearchablePages(index))>>)
    /\ Return("generate_search_index")
    /\ UNCHANGED <<inputs, template_dir, build_dir_exists, pages, static_copied,
                   sitemap_file, index, origin, visited, globbed, rendered, crashed>>

\* generate_sitemap(searchable_pages)
GenerateSitemap ==
    /\ Running("generate_sitemap")
    /\ sitemap_file' = File(SitemapEntries(searchable_pages))
    /\ stdout' = Append(stdout, <<"sitemap", Len(searchable_pages)>>)
    /\ Return("generate_sitemap")
    /\ UNCHANGED <<inputs, template_dir, build_dir_exists, pages, static_copied,
                   search_index_file, index, origin, visited, globbed, rendered,
                   searchable_pages, crashed>>

Next ==
    \/ PrepareBuildDir
    \/ PrerenderNoSource
    \/ PrerenderPartial
    \/ PrerenderDone
    \/ CopyStaticTree
    \/ CopyStaticNone
    \/ LoadDocument
    \/ BuildIndexDone
    \/ CheckForDuplicatePermalinks
    \/ RenderPage
    \/ RenderTemplateNotFound
    \/ RenderDone
    \/ GenerateSearchIndex
    \/ GenerateSitemap

Spec == Init /\ [][Next]_vars

(***************************************************************************)
(* The indexer on its own: main has reached build_index (no partial        *)
(* sources, no static tree) and markdown/ holds one document, whose path   *)
(* and optional keys range over all shapes a front matter can give them.   *)
(***************************************************************************)
IndexerPaths ==
    Paths \cup { << <<"b">>, <<"c">>, <<"a", ".", "md">> >>,
                 << <<"a", ".", "b", ".", "md">> >> }

\* every string of at most MaxPermalinkLen characters
PermalinkStrings ==
    UNION { [1..n -> {"/", "a", "."}] : n \in 0..MaxPermalinkLen }

DeclaredPermalinks == {PyNone} \cup {PyStr(cs) : cs \in PermalinkStrings}

DeclaredExcludes == {PyTrue, PyFalse, PyNone}

DeclaredGroups ==
    { PyStr(<<"featured">>),
      PyList(<<>>),
      PyList(<<PyStr(<<"x">>), PyStr(<<"featured">>)>>),
      PyList(<<PyInt("7"), PyStr(<<"x">>)>>),
      PyInt("7"),
      PyNone,
      PyTrue }

\* metadata with key set to each value of a set, and without the key
WithOptional(metadatas, key, values) ==
    metadatas \cup {(key :> v) @@ m : m \in metadatas, v \in values}

IndexerMetadatas ==
    WithOptional(
        WithOptional(
            WithOptional({Base, Without(Base, {"image"})},
                         "permalink", DeclaredPermalinks),
            "pages_exclude", DeclaredExcludes),
        "groups", DeclaredGroups)

InitIndexer ==
    /\ \E md_path \in IndexerPaths, metadata \in IndexerMetadatas :
          markdown = (md_path :> [metadata |-> metadata, content |-> <<"text">>])
    /\ partialsource = [exists |-> FALSE, stems |-> {}]
    /\ static_exists = FALSE
    /\ template_dir = TemplateFiles
    /\ build_dir_exists = TRUE
    /\ pages = <<>>
    /\ static_copied = FALSE
    /\ search_index_file = NoFile
    /\ sitemap_file = NoFile
    /\ index = <<>>
    /\ origin = <<>>
    /\ visited = {}
    /\ globbed = {}
    /\ rendered = 0
    /\ searchable_pages = <<>>
    /\ stdout = << <<"no static directory">> >>
    /\ pc = 4
    /\ completed = SubSeq(MainOrder, 1, 3)
    /\ crashed = FALSE

NextIndexer ==
    \/ LoadDocument
    \/ BuildIndexDone

SpecIndexer == InitIndexer /\ [][NextIndexer]_vars

(***************************************************************************)
(* Properties.                                                             *)
(***************************************************************************)
Completed(stage) == \E n \in 1..Len(completed) : completed[n] = stage
Finished == Stage = "exit" /\ ~crashed
Range(seq) == {seq[n] : n \in 1..Len(seq)}

\* the <loc> of a page: the base URL without a trailing slash, then the permalink
Loc(page) == <<"https:", "/", "/", "domain", ".", "io">> \o page.permalink.s

\* the front matter of the document the k-th record of index was built from
SourceMetadata(k) == markdown[origin[k]].metadata
HasAllRequired(metadata) ==
    /\ "title" \in DOMAIN metadata
    /\ "desc" \in DOMAIN metadata
    /\ "image" \in DOMAIN metadata
    /\ "template" \in DOMAIN metadata

\* the records of index the page files, search index and sitemap of this build
\* were written from
Contributors ==
    {k \in 1..Len(index) :
        \/ \E out \in DOMAIN pages : pages[out].page = index[k]
        \/ search_index_file.exists /\ index[k] \in Range(search_index_file.body)
        \/ sitemap_file.exists
           /\ \E n \in 1..Len(sitemap_file.body) :
                 sitemap_file.body[n] = Loc(index[k])}

\* C1: a visited document has a page record if and only if its metadata has the
\* four required keys (unknown keys change nothing), and once public/ has been
\* recreated every page file, search_index.json entry and sitemap.xml entry
\* comes from a record of the index, hence from a document with all four keys.
C1_IndexedIffRequiredKeys ==
    /\ \A md_path \in visited :
          (\E k \in 1..Len(index) : origin[k] = md_path)
              <=> HasAllRequired(markdown[md_path].metadata)
    /\ \A md_path \in DOMAIN markdown \ visited :
          ~\E k \in 1..Len(index) : origin[k] = md_path
    /\ \A k \in 1..Len(index), j \in 1..Len(index) : origin[k] = origin[j] => k = j
    /\ Completed("prepare_build_dir") =>
          /\ \A out \in DOMAIN pages : pages[out].page \in Range(index)
          /\ search_index_file.exists => Range(search_index_file.body) \subseteq Range(index)
          /\ sitemap_file.exists =>
                \A n \in 1..Len(sitemap_file.body) :
                    \E k \in 1..Len(index) :
                        sitemap_file.body[n] = Loc(index[k])
          /\ \A k \in Contributors : HasAllRequired(SourceMetadata(k))

\* a finished build that skipped a document without a required key and kept
\* one with an unknown key
C1_Witness ==
    /\ Finished
    /\ \E md_path \in visited :
          /\ ~HasAllRequired(markdown[md_path].metadata)
          /\ \A k \in 1..Len(index) : origin[k] # md_path
    /\ \E k \in 1..Len(index) :
          /\ "author" \in DOMAIN SourceMetadata(k)
          /\ k \in Contributors

\* the page records a finished build excluded from the search index
Excluded == {k \in 1..Len(index) : Truthy(index[k].pages_exclude)}
InSitemap(k) ==
    /\ sitemap_file.exists
    /\ \E n \in 1..Len(sitemap_file.body) :
          sitemap_file.body[n] = Loc(index[k])

\* C2 as stated: after a finished build a page record whose pages_exclude is
\* true is absent from the search index, has a rendered output file and has a
\* <url><loc> entry in sitemap.xml.
C2_ExcludedStillInSitemap ==
    Finished =>
        \A k \in Excluded :
            /\ index[k] \notin Range(search_index_file.body)
            /\ OutPath(index[k]) \in DOMAIN pages
            /\ InSitemap(k)

\* C2 as amended: after a finished build sitemap.xml lists exactly the pages of
\* the search index, one <loc> each in index order, so a page record whose
\* pages_exclude is true is absent from the search index and adds no entry to
\* the sitemap (its URL is there only if a searchable page has the same
\* permalink); it is still rendered.
C2_ExcludedOmittedFromSitemapButRendered ==
    Finished =>
        /\ Len(sitemap_file.body) = Len(search_index_file.body)
        /\ \A n \in 1..Len(sitemap_file.body) :
              sitemap_file.body[n] = Loc(search_index_file.body[n])
        /\ \A k \in Excluded :
              /\ index[k] \notin Range(search_index_file.body)
              /\ InSitemap(k) =>
                    \E j \in 1..Len(index) \ Excluded :
                        index[j].permalink = index[k].permalink
              /\ OutPath(index[k]) \in DOMAIN pages
              /\ \E j \in k..Len(index) :
                    /\ OutPath(index[j]) = OutPath(index[k])
                    /\ pages[OutPath(index[k])] = Render(index[j], index)

\* a finished build with an excluded page, rendered and not in the sitemap,
\* beside a searchable one
C2_Witness ==
    /\ Finished
    /\ \E k \in Excluded :
          /\ ~InSitemap(k)
          /\ \E out \in DOMAIN pages : pages[out].page = index[k]
    /\ \E j \in 1..Len(index) : j \notin Excluded /\ InSitemap(j)

\* C3 as stated: once generate_search_index has returned, search_index.json
\* holds exactly the page records whose pages_exclude is false, in index order.
C3_SearchIndexIsPagesWithFalse ==
    Completed("generate_search_index") =>
        /\ search_index_file.exists
        /\ search_index_file.body = SelectSeq(index, LAMBDA p : p.pages_exclude = PyFalse)
        /\ \A p \in Range(search_index_file.body) : p.pages_exclude = PyFalse
        /\ \A p \in Range(index) :
              p.pages_exclude = PyTrue => p \notin Range(search_index_file.body)

\* whether a declared pages_exclude is one of Python's false values
Falsy(v) == v \in {PyFalse, PyNone, PyStr(<<>>), PyInt("0"), PyList(<<>>)}

\* C3 as amended: once generate_search_index has returned, search_index.json
\* holds exactly the page records whose pages_exclude is false or another false
\* value of Python (None, empty), in index order and as they are in the index;
\* every page in it has such a value and every page whose pages_exclude is true
\* (or another true value) is absent from it.
C3_SearchIndexIsPagesWithFalsy ==
    Completed("generate_search_index") =>
        /\ search_index_file.exists
        /\ search_index_file.body = SelectSeq(index, LAMBDA p : Falsy(p.pages_exclude))
        /\ \A p \in Range(search_index_file.body) : Falsy(p.pages_exclude)
        /\ \A p \in Range(index) :
              p.pages_exclude = PyTrue => p \notin Range(search_index_file.body)
        /\ \A p \in Range(index) :
              ~Falsy(p.pages_exclude) => p \notin Range(search_index_file.body)

\* a search index written from an index with a page excluded by true, a page
\* kept with false and a page kept with None
C3_Witness ==
    /\ Completed("generate_search_index")
    /\ \E p \in Range(index) :
          p.pages_exclude = PyTrue /\ p \notin Range(search_index_file.body)
    /\ \E p \in Range(search_index_file.body) : p.pages_exclude \in {PyFalse, PyNone}

\* "/" + the source path without its ".md" (its last two tokens), with forward
\* slashes, + "/"
RECURSIVE SlashJoined(_)
SlashJoined(parts) ==
    IF Len(parts) = 1 THEN SubSeq(parts[1], 1, Len(parts[1]) - 2) \o <<"/">>
    ELSE parts[1] \o <<"/">> \o SlashJoined(Tail(parts))
DerivedFromPath(md_path) == PyStr(<<"/">> \o SlashJoined(md_path))

Declares(k, key) == key \in DOMAIN SourceMetadata(k)

\* C4 as stated: the permalink of a page record is the declared permalink,
\* verbatim, whenever the metadata has a permalink key, and otherwise
\* "/" + source path without the extension + "/".
C4_DeclaredPermalinkAlwaysVerbatim ==
    \A k \in 1..Len(index) :
        IF Declares(k, "permalink")
            THEN index[k].permalink = SourceMetadata(k)["permalink"]
            ELSE index[k].permalink = DerivedFromPath(origin[k])

\* a declared permalink that is used: a non-empty string
DeclaresNonEmptyPermalink(k) ==
    /\ Declares(k, "permalink")
    /\ SourceMetadata(k)["permalink"].type = "str"
    /\ Len(SourceMetadata(k)["permalink"].s) > 0

\* C4 as amended: the permalink of a page record is the declared permalink,
\* verbatim, whenever the metadata declares a non-empty one; when the key is
\* absent, or declared empty or null, it is "/" + source path without the
\* extension + "/".
C4_NonEmptyDeclaredPermalinkVerbatim ==
    \A k \in 1..Len(index) :
        IF DeclaresNonEmptyPermalink(k)
            THEN index[k].permalink = SourceMetadata(k)["permalink"]
            ELSE index[k].permalink = DerivedFromPath(origin[k])

\* a record that took its declared permalink, which is not the derived one
C4_Witness ==
    \E k \in 1..Len(index) :
        /\ DeclaresNonEmptyPermalink(k)
        /\ index[k].permalink = SourceMetadata(k)["permalink"]
        /\ index[k].permalink # DerivedFromPath(origin[k])

\* starts with "/" and ends with "/" unless the last segment has a suffix
HasSuffix(cs) ==
    LET segs == PathParts(cs)
    IN  segs # <<>> /\ NameSuffix(segs[Len(segs)]) # <<>>
Canonical(permalink) ==
    /\ permalink.type = "str"
    /\ permalink.s # <<>>
    /\ permalink.s[1] = "/"
    /\ permalink.s[Len(permalink.s)] = "/" \/ HasSuffix(permalink.s)

\* C5 as stated: every page record of the index has a permalink that starts
\* with "/" and ends with "/" unless it names a file, declared or derived.
C5_EveryPermalinkCanonical ==
    \A k \in 1..Len(index) : Canonical(index[k].permalink)

\* C5 as amended: every page record whose permalink is derived (none declared,
\* or declared empty or null) has a permalink that starts with "/" and ends
\* with "/"; a declared non-empty permalink is kept as declared, so it has that
\* form only when it is declared in that form.
C5_DerivedPermalinkCanonical ==
    \A k \in 1..Len(index) :
        IF DeclaresNonEmptyPermalink(k)
            THEN index[k].permalink = SourceMetadata(k)["permalink"]
            ELSE /\ Canonical(index[k].permalink)
                 /\ index[k].permalink.s[1] = "/"
                 /\ index[k].permalink.s[Len(index[k].permalink.s)] = "/"

\* a record with a derived permalink of a file two directories down, and one
\* whose declaration was empty
C5_Witness ==
    \E k \in 1..Len(index) :
        /\ ~DeclaresNonEmptyPermalink(k)
        /\ Canonical(index[k].permalink)
        /\ \/ Len(origin[k]) = 3
           \/ Declares(k, "permalink")

\* the name of the directory of a source path, "root" at the top
ParentName(md_path) ==
    IF Len(md_path) = 1 THEN PyStr(<<"root">>) ELSE PyStr(md_path[Len(md_path) - 1])

IsListOfStr(v) ==
    v.type = "list" /\ \A n \in 1..Len(v.items) : v.items[n].type = "str"

\* the declared groups normalised as the data model says
NormalizedAsDocumented(k) ==
    IF ~Declares(k, "groups") THEN <<>>
    ELSE LET v == SourceMetadata(k)["groups"]
         IN  IF v.type = "str" THEN <<v>>
             ELSE IF IsListOfStr(v) THEN v.items
             ELSE <<>>

\* C6 as stated: groups is a sequence of strings, the parent directory name (or
\* "root") first, then the declared groups: a string as one element, a list of
\* strings in order, anything else discarded.
C6_GroupsAreStrings ==
    \A k \in 1..Len(index) :
        /\ \A n \in 1..Len(index[k].groups) : index[k].groups[n].type = "str"
        /\ index[k].groups = <<ParentName(origin[k])>> \o NormalizedAsDocumented(k)

\* the declared groups as build_index keeps them
NormalizedAsKept(k) ==
    IF ~Declares(k, "groups") THEN <<>>
    ELSE LET v == SourceMetadata(k)["groups"]
         IN  IF v.type = "str" THEN <<v>>
             ELSE IF v.type = "list" THEN v.items
             ELSE <<>>

\* C6 as amended: groups is a sequence whose first element is the parent
\* directory name (or "root"), followed by the declared groups: a string as one
\* element, a list in order with all its elements whatever their type, any
\* value that is neither a string nor a list discarded; so groups is a sequence
\* of strings unless a declared list holds something else.
C6_GroupsKeepAnyList ==
    \A k \in 1..Len(index) :
        /\ Len(index[k].groups) >= 1
        /\ index[k].groups[1] = ParentName(origin[k])
        /\ index[k].groups = <<ParentName(origin[k])>> \o NormalizedAsKept(k)
        /\ (Declares(k, "groups") /\ SourceMetadata(k)["groups"].type = "list"
               /\ ~IsListOfStr(SourceMetadata(k)["groups"]))
           \/ \A n \in 1..Len(index[k].groups) : index[k].groups[n].type = "str"

\* a record of a document in a directory with a declared string, one with a
\* list of two strings, one with a discarded number
C6_Witness ==
    \E k \in 1..Len(index) :
        /\ Len(origin[k]) > 1
        /\ Declares(k, "groups")
        /\ \/ SourceMetadata(k)["groups"].type = "str" /\ Len(index[k].groups) = 2
           \/ IsListOfStr(SourceMetadata(k)["groups"]) /\ Len(index[k].groups) = 3
           \/ SourceMetadata(k)["groups"].type = "int" /\ Len(index[k].groups) = 1

\* the first record of index with the permalink of the j-th
FirstOwner(j) ==
    CHOOSE i \in 1..j :
        /\ index[i].permalink = index[j].permalink
        /\ \A h \in 1..(i - 1) : index[h].permalink # index[j].permalink

\* the owners of the permalink of the j-th record
Owners(j) == {i \in 1..Len(index) : index[i].permalink = index[j].permalink}

\* the collision diagnostics printed so far
Collisions == SelectSeq(stdout, LAMBDA line : line[1] = "duplicate")

\* the diagnostics the audit owes: one per owner after the first, in index order
OwedCollisions ==
    LET mark == [j \in 1..Len(index) |->
                    IF FirstOwner(j) < j
                        THEN <<"duplicate", index[FirstOwner(j)].title, index[j].title,
                               index[j].permalink>>
                        ELSE <<"first owner">>]
    IN  SelectSeq(mark, LAMBDA line : line[1] = "duplicate")

Unresolvable == {k \in 1..Len(index) : index[k].template.s \notin template_dir}

\* C8: when the index a build renders from holds a record whose template cannot
\* be resolved, render_pages never returns: search_index.json and sitemap.xml
\* are not written, no record from the first such one on is rendered, and once
\* the exception is raised the files of the records before it are in public/.
C8_UnresolvableTemplateAborts ==
    /\ (Completed("check_for_duplicate_permalinks") /\ Unresolvable # {}) =>
          /\ ~Completed("render_pages")
          /\ ~search_index_file.exists
          /\ ~sitemap_file.exists
          /\ \A k \in Unresolvable : rendered < k
          /\ \A out \in DOMAIN pages : \E k \in 1..rendered : pages[out].page = index[k]
    /\ crashed =>
          /\ Unresolvable # {}
          /\ rendered + 1 \in Unresolvable
          /\ Stage = "render_pages"
          /\ \A k \in 1..rendered :
                /\ OutPath(index[k]) \in DOMAIN pages
                /\ \E j \in k..rendered : pages[OutPath(index[k])] = Render(index[j], index)

\* a build aborted at its second record, the file of the first one on disk
C8_Witness ==
    /\ crashed
    /\ rendered = 1
    /\ Len(index) = 2
    /\ pages = (OutPath(index[1]) :> Render(index[1], index))
    /\ ~search_index_file.exists
    /\ ~sitemap_file.exists

\* what only this build can have put in public/
WrittenToPublic ==
    \/ rendered > 0
    \/ Completed("copy_static") /\ static_copied
    \/ Completed("generate_search_index")
    \/ Completed("generate_sitemap")

\* the file a previous build left
Stale == << <<"old">>, <<"index", ".", "html">> >>

\* C9: nothing is written to public/ before it has been deleted and recreated;
\* every partial_<stem>.html is written, and the index is complete and audited,
\* before the first page is rendered; search_index.json and sitemap.xml are
\* written only after every page has been rendered, the sitemap after the
\* search index; stages return one at a time, in the order of main.
C9_StagesInOrder ==
    /\ (WrittenToPublic \/ globbed # {} \/ visited # {}) =>
          /\ Completed("prepare_build_dir")
          /\ Stale \notin DOMAIN pages
    /\ ~Completed("prepare_build_dir") => template_dir = TemplateFiles
    /\ rendered > 0 =>
          /\ Completed("prerender_partials_to_templates")
          /\ Completed("copy_static")
          /\ partialsource.exists =>
                \A stem \in partialsource.stems :
                    (<<"partial_">> \o stem \o <<".", "html">>) \in template_dir
          /\ Completed("build_index")
          /\ visited = DOMAIN markdown
          /\ Completed("check_for_duplicate_permalinks")
    /\ visited # {} => Completed("copy_static")
    /\ (Completed("prepare_build_dir") /\ search_index_file.exists) =>
          /\ Completed("render_pages")
          /\ rendered = Len(index)
          /\ Len(index) = Cardinality({p \in DOMAIN markdown :
                                          HasAllRequired(markdown[p].metadata)})
    /\ (Completed("prepare_build_dir") /\ sitemap_file.exists) =>
          /\ Completed("generate_search_index")
          /\ search_index_file.exists
    /\ Len(completed) = pc - 1
    /\ \A n \in 1..Len(completed) :
          completed[n] = <<"prepare_build_dir", "prerender_partials_to_templates",
                           "copy_static", "build_index",
                           "check_for_duplicate_permalinks", "render_pages",
                           "generate_search_index", "generate_sitemap">>[n]

\* a finished build over a stale public/, with two partials and two pages
C9_Witness ==
    /\ Finished
    /\ Len(completed) = 8
    /\ partialsource.exists
    /\ Cardinality(template_dir) = 4
    /\ rendered = 2
    /\ static_copied
    /\ sitemap_file.exists

\* the output path the renderer is documented to use: the permalink without its
\* leading slash, index.html appended when the last component has no suffix
DocumentedOutPath(page) ==
    LET rel == IF page.permalink.s # <<>> /\ page.permalink.s[1] = "/"
                  THEN Tail(page.permalink.s) ELSE page.permalink.s
        parts == PathParts(rel)
    IN  IF HasSuffix(rel) THEN parts ELSE parts \o << <<"index", ".", "html">> >>

\* C10 as stated: after a finished build the output path of every page record
\* holds the rendering of that record, and there are as many page files as page
\* records.
C10_OneFilePerRecord ==
    Finished =>
        /\ \A k \in 1..Len(index) :
              /\ DocumentedOutPath(index[k]) \in DOMAIN pages
              /\ pages[DocumentedOutPath(index[k])] = Render(index[k], index)
        /\ Cardinality(DOMAIN pages) = Len(index)

\* the last record of index with the output path of the k-th
LastAt(k) ==
    CHOOSE j \in k..Len(index) :
        /\ DocumentedOutPath(index[j]) = DocumentedOutPath(index[k])
        /\ \A h \in (j + 1)..Len(index) :
              DocumentedOutPath(index[h]) # DocumentedOutPath(index[k])

\* C10 as amended: after a finished build the output path of every page record
\* is a file of the output tree and holds the rendering of the last record, in
\* index order, that has this output path (records with one permalink, or with
\* "/x" and "/x/", share it); so the page files are as many as the distinct
\* output paths, which is the number of page records only when no two records
\* share an output path.
C10_OneFilePerOutputPath ==
    Finished =>
        /\ \A k \in 1..Len(index) :
              /\ DocumentedOutPath(index[k]) \in DOMAIN pages
              /\ pages[DocumentedOutPath(index[k])] = Render(index[LastAt(k)], index)
        /\ DOMAIN pages = {DocumentedOutPath(index[k]) : k \in 1..Len(index)}
        /\ Cardinality(DOMAIN pages) <= Len(index)
        /\ (\A k, j \in 1..Len(index) :
               DocumentedOutPath(index[k]) = DocumentedOutPath(index[j]) => k = j)
           => Cardinality(DOMAIN pages) = Len(index)

\* a finished build with a page at a directory permalink and a page at a file
\* permalink, each in its own file
C10_Witness ==
    /\ Finished
    /\ Len(index) = 2
    /\ Cardinality(DOMAIN pages) = 2
    /\ \E k \in 1..2 : index[k].permalink.s = <<"/", "f", ".", "t">>
    /\ << <<"f", ".", "t">> >> \in DOMAIN pages
    /\ \E out \in DOMAIN pages : Len(out) > 1

=============================================================================
